---- MODULE Spec2Model ----
(***************************************************************************)
(* The WebSocket relay of code/simluation/server.py.                       *)
(*                                                                         *)
(* One coroutine (websocket_handler) runs per connection on a single       *)
(* asyncio event loop: the code between two awaits is atomic, and the      *)
(* awaits are the only places where another handler can run.  A handler    *)
(* awaits in ws.prepare (line 11), in `async for msg in ws` (line 19) and  *)
(* in client.send_str (line 24).  Each action below is the code a handler  *)
(* runs from one await to the next.                                        *)
(*                                                                         *)
(* active_websockets is a Python set iterated while handlers that run in   *)
(* between add to it and discard from it.  The set is modelled as its hash *)
(* table: a slot holds a connection or is empty, the slot of a new member  *)
(* is decided by the hash of the object (arbitrary here), and the set      *)
(* iterator is a slot index plus the size the set had when the iterator    *)
(* was created; `next` raises RuntimeError when the size differs.  Only    *)
(* the relative order of the members matters to an iteration, so the slots *)
(* kept are as many as there are connections, twice: a discard leaves a    *)
(* dummy entry behind, the add that fills three fifths of the table        *)
(* rebuilds it, and in a larger table a member is found at its old index   *)
(* or a table length further on, behind every running iterator (the upper  *)
(* half of the slots).                                                     *)
(***************************************************************************)
EXTENDS Integers, Sequences, FiniteSets, TLC

\* Bounds of the model: the connections ever made, and the messages (frames of
\* the peers, close frames and reader errors included) ever queued for the handlers.
NConns == 4
MaxFrames == 2

\* Bound of ChurnSpec: the connections that have come and gone before its
\* first state.
MaxGone == 1

Conns == 1..NConns
TableSize == 2 * NConns
Slots == 0..(TableSize - 1)

VARIABLES
    active_websockets,  \* the registry: slot -> connection, 0 for an empty slot
    pc,                 \* where each handler is suspended
    closed,             \* ws.closed of each connection
    down,               \* the transport of the connection is lost: writes to it raise
    inbox,              \* frames the client has sent and the handler has not read
    msg,                \* the message the handler is relaying (its loop variable msg)
    itPos,              \* set iterator of the handler's for loop: next slot to look at
    itUsed,             \* set iterator: size of the set when the iterator was created
    \* history
    regStart,           \* during a relay: the members of the registry when it began
    doneStart,          \* during a relay: the connections cleaned up before it began
    writes,             \* per recipient, the <<sender, data>> written to it, in order
    removals,           \* how many times the connection left the registry
    sentCount,          \* messages the reader of the connection has queued so far
    last,               \* what the last step did (Idle: nothing of the kinds below)
    \* the hash table behind the set
    fill,               \* entries of the table in use: the members and the dummies
    mask,               \* the length of the table, minus one
    \* the HTTP side of the application
    files,              \* the files that exist, each named by its path from the working directory
    response            \* the answer to the last HTTP request (NoResponse: none yet)

tableVars == <<fill, mask>>
relayVars == <<active_websockets, pc, closed, down, inbox, msg, itPos, itUsed,
               regStart, doneStart, writes, removals, sentCount, last, tableVars>>
httpVars == <<files, response>>
vars == <<relayVars, httpVars>>

NoMsg == [type |-> "NONE", data |-> 0]

\* The record of a step.  actor: the handler that ran (0: a peer or the network).
\* sent: it called send_str(data) on connection to, and ok tells whether the
\* call returned.  relayEnd: the for loop over the registry for message data
\* ended in this step, having begun with registry start and cleaned-up
\* connections gone, mut telling whether the registry changed meanwhile.
\* exit: how the handler left its try block in this step ("": it did not), on:
\* the connection whose transport raised the exception that ended it (0: none).
Idle == [actor |-> 0, sent |-> FALSE, to |-> 0, data |-> 0, ok |-> FALSE,
         relayEnd |-> FALSE, start |-> {}, gone |-> {}, mut |-> FALSE,
         exit |-> "", on |-> 0]

\* No HTTP request has been answered yet.
NoResponse == [method |-> "", path |-> <<>>, handler |-> "", status |-> 0, file |-> <<>>]

----------------------------------------------------------------------------
\* The set active_websockets.

EmptyTable == [i \in Slots |-> 0]

Members(t) == {t[i] : i \in Slots} \ {0}

Used(t) == Cardinality({i \in Slots : t[i] # 0})

\* Faulty variant: the connection is not registered.
SetAddNothing(t, i, c) == t

\* active_websockets.add(ws): ws is a fresh object, stored in the slot i its hash selects.
SetAdd(t, i, c) == [t EXCEPT ![i] = c]

\* The length of an empty set's table (PySet_MINSIZE).
PySet_MINSIZE == 8

\* A new member takes a slot no entry has used (its hash selects one past the
\* dummies), so that every add puts one more entry in use.  Before the table
\* has grown, the members sit in the lower half of the slots.
FreeSlot(t, mk, i) == t[i] = 0 /\ (mk = PySet_MINSIZE - 1 => i < NConns)

\* The add that has put a new entry into the table rebuilds the table when
\* three fifths of it are in use (fl: the entries in use, the new one included).
NeedsResize(fl, mk) == fl * 5 >= mk * 3

\* The length of the rebuilt table: the first power of two, from PySet_MINSIZE
\* on, above four times the number of members.
RECURSIVE Grow(_, _)
Grow(n, minused) == IF n > minused THEN n ELSE Grow(2 * n, minused)
NewSize(used) == Grow(PySet_MINSIZE, 4 * used)

\* The members up move a table length further on.
Relocate(t, up) ==
    [j \in Slots |->
        IF j < NConns THEN (IF j \in up THEN 0 ELSE t[j])
        ELSE IF (j - NConns) \in up THEN t[j - NConns] ELSE t[j]]

\* The tables a rebuild of t to the length size can give: the dummies are
\* dropped and a member is stored at its hash modulo the length, that is, in a
\* longer table, at its old index or a multiple of the old length further on.
Resized(t, mk, size) ==
    IF size - 1 = mk THEN {t}
    ELSE {Relocate(t, up) : up \in SUBSET {i \in Slots : i < NConns /\ t[i] # 0}}

\* Faulty variant: the entry is left in the set.
DiscardKeeps(t, c) == t

\* active_websockets.discard(ws): the entry is removed if present.
Discard(t, c) == [i \in Slots |-> IF t[i] = c THEN 0 ELSE t[i]]

\* Faulty variant: set.remove, which raises KeyError for an absent element.
RemoveRaises(t, c) == c \notin Members(t)

\* set.discard, unlike set.remove, raises nothing for an absent element.
DiscardRaises(t, c) == FALSE

\* Faulty variant: the discard placed after the loop instead of in a finally
\* block, so that an exception skips it.
CleanupOnNormalExitOnly(t, c, e) == IF e = "return" THEN Discard(t, c) ELSE t

\* The finally block (lines 28-30) runs on every exit of the try block, whatever
\* exception e ("return" for a normal loop end) is leaving it.
Cleanup(t, c, e) == Discard(t, c)

----------------------------------------------------------------------------
\* The relay loop.

\* Faulty variant: the newest queued frame is read first.
NextIdxNewest(q) == Len(q)

\* `async for msg in ws`: the frames of a connection are read in arrival order.
NextIdx(q) == 1

RemoveAt(q, i) == [j \in 1..(Len(q) - 1) |-> IF j < i THEN q[j] ELSE q[j + 1]]

\* Faulty variant: the sender is not excluded.
EligibleAnyOpen(client, ws, cl) == ~cl[client]

\* Line 23: `client is not ws and not client.closed`.
Eligible(client, ws, cl) == client # ws /\ ~cl[client]

\* Lines 22-23: the iterator advances from slot pos to the next member the
\* condition of line 23 accepts; TableSize when the table is exhausted.
RECURSIVE Scan(_, _, _, _)
Scan(t, ws, cl, pos) ==
    IF pos >= TableSize THEN TableSize
    ELSE IF t[pos] # 0 /\ Eligible(t[pos], ws, cl) THEN pos
    ELSE Scan(t, ws, cl, pos + 1)

\* Faulty variant: the payload is altered on the way.
PayloadNext(m) == m.data + 1

\* Line 24: the payload handed to send_str is msg.data.
Payload(m) == m.data

RECURSIVE SumTo(_, _)
SumTo(f, n) == IF n = 0 THEN 0 ELSE f[n] + SumTo(f, n - 1)
TotalFrames == SumTo(sentCount, NConns)

Registered == Members(active_websockets)
Done == {c \in Conns : pc[c] = "done"}

\* The handler of s leaves the try block by e ("return": the loop ended,
\* otherwise the exception): the finally block runs, the handler ends and the
\* server drops the transport.
Finally(s, e) ==
    /\ active_websockets' = Cleanup(active_websockets, s, e)
    /\ pc' = [pc EXCEPT ![s] = "done"]
    /\ down' = [down EXCEPT ![s] = TRUE]
    /\ removals' = [removals EXCEPT ![s] =
                      IF s \in Registered /\ s \notin Members(active_websockets')
                      THEN @ + 1 ELSE @]
    /\ regStart' = [regStart EXCEPT ![s] = {}]
    /\ doneStart' = [doneStart EXCEPT ![s] = {}]
    /\ itPos' = [itPos EXCEPT ![s] = 0]
    /\ itUsed' = [itUsed EXCEPT ![s] = 0]
    /\ msg' = [msg EXCEPT ![s] = NoMsg]
    /\ inbox' = [inbox EXCEPT ![s] = <<>>]

\* How the handler of s ends when e leaves the try block: by e, unless the
\* finally block itself raises.
ExitBy(s, e) == IF DiscardRaises(active_websockets, s) THEN "KeyError" ELSE e

\* Faulty variant: a relay that has written to a recipient also drops the
\* closed connections from the registry.
FanoutPruning(s, m, pos, used, st, gn, mu, ib) ==
    LET i == Scan(active_websockets, s, closed, pos)
        ev == [Idle EXCEPT !.actor = s, !.data = Payload(m), !.start = st,
                           !.gone = gn, !.mut = mu]
    IN
    IF i = TableSize
    THEN \* the for loop is exhausted: back to `async for`
         /\ pc' = [pc EXCEPT ![s] = "recv"]
         /\ itPos' = [itPos EXCEPT ![s] = 0]
         /\ itUsed' = [itUsed EXCEPT ![s] = 0]
         /\ msg' = [msg EXCEPT ![s] = NoMsg]
         /\ regStart' = [regStart EXCEPT ![s] = {}]
         /\ doneStart' = [doneStart EXCEPT ![s] = {}]
         /\ inbox' = [inbox EXCEPT ![s] = ib]
         /\ last' = [ev EXCEPT !.relayEnd = TRUE]
         /\ UNCHANGED <<active_websockets, down, writes, removals>>
    ELSE LET r == active_websockets[i] IN
         IF down[r]
         THEN \* send_str raises ConnectionResetError; nothing catches it
              /\ Finally(s, "ConnectionResetError")
              /\ last' = [ev EXCEPT !.sent = TRUE, !.to = r, !.ok = FALSE,
                                    !.relayEnd = TRUE, !.on = r,
                                    !.exit = ExitBy(s, "ConnectionResetError")]
              /\ UNCHANGED writes
         ELSE /\ writes' = [writes EXCEPT ![r] = Append(@, <<s, Payload(m)>>)]
              /\ pc' = [pc EXCEPT ![s] = "send"]
              /\ itPos' = [itPos EXCEPT ![s] = i + 1]
              /\ itUsed' = [itUsed EXCEPT ![s] = used]
              /\ msg' = [msg EXCEPT ![s] = m]
              /\ regStart' = [regStart EXCEPT ![s] = st]
              /\ doneStart' = [doneStart EXCEPT ![s] = gn]
              /\ inbox' = [inbox EXCEPT ![s] = ib]
              /\ last' = [ev EXCEPT !.sent = TRUE, !.to = r, !.ok = TRUE]
              /\ active_websockets' =
                     [j \in Slots |->
                        IF active_websockets[j] # 0 /\ closed[active_websockets[j]]
                        THEN 0 ELSE active_websockets[j]]
              /\ UNCHANGED <<down, removals>>

\* Lines 22-24 from the iterator position pos on, up to the next await: the for
\* loop of the handler of s, relaying message m, skips the members line 23
\* rejects and calls send_str on the first one it accepts.  send_str raises
\* (aiohttp: ConnectionResetError, "Cannot write to closing transport") when
\* the recipient's transport is lost, which ws.closed does not show until the
\* recipient's own handler has read the error; otherwise the frame is written and
\* the handler is suspended in the await.  used, st, gn, mu: the iterator's
\* recorded size and the history of this relay; ib: inbox[s] after the read.
Fanout(s, m, pos, used, st, gn, mu, ib) ==
    LET i == Scan(active_websockets, s, closed, pos)
        ev == [Idle EXCEPT !.actor = s, !.data = Payload(m), !.start = st,
                           !.gone = gn, !.mut = mu]
    IN
    IF i = TableSize
    THEN \* the for loop is exhausted: back to `async for`
         /\ pc' = [pc EXCEPT ![s] = "recv"]
         /\ itPos' = [itPos EXCEPT ![s] = 0]
         /\ itUsed' = [itUsed EXCEPT ![s] = 0]
         /\ msg' = [msg EXCEPT ![s] = NoMsg]
         /\ regStart' = [regStart EXCEPT ![s] = {}]
         /\ doneStart' = [doneStart EXCEPT ![s] = {}]
         /\ inbox' = [inbox EXCEPT ![s] = ib]
         /\ last' = [ev EXCEPT !.relayEnd = TRUE]
         /\ UNCHANGED <<active_websockets, down, writes, removals>>
    ELSE LET r == active_websockets[i] IN
         IF down[r]
         THEN \* send_str raises ConnectionResetError; nothing catches it
              /\ Finally(s, "ConnectionResetError")
              /\ last' = [ev EXCEPT !.sent = TRUE, !.to = r, !.ok = FALSE,
                                    !.relayEnd = TRUE, !.on = r,
                                    !.exit = ExitBy(s, "ConnectionResetError")]
              /\ UNCHANGED writes
         ELSE /\ writes' = [writes EXCEPT ![r] = Append(@, <<s, Payload(m)>>)]
              /\ pc' = [pc EXCEPT ![s] = "send"]
              /\ itPos' = [itPos EXCEPT ![s] = i + 1]
              /\ itUsed' = [itUsed EXCEPT ![s] = used]
              /\ msg' = [msg EXCEPT ![s] = m]
              /\ regStart' = [regStart EXCEPT ![s] = st]
              /\ doneStart' = [doneStart EXCEPT ![s] = gn]
              /\ inbox' = [inbox EXCEPT ![s] = ib]
              /\ last' = [ev EXCEPT !.sent = TRUE, !.to = r, !.ok = TRUE]
              /\ UNCHANGED <<active_websockets, down, removals>>

----------------------------------------------------------------------------
RelayInit ==
    /\ active_websockets = EmptyTable
    /\ pc = [c \in Conns |-> "new"]
    /\ closed = [c \in Conns |-> FALSE]
    /\ down = [c \in Conns |-> FALSE]
    /\ inbox = [c \in Conns |-> <<>>]
    /\ msg = [c \in Conns |-> NoMsg]
    /\ itPos = [c \in Conns |-> 0]
    /\ itUsed = [c \in Conns |-> 0]
    /\ regStart = [c \in Conns |-> {}]
    /\ doneStart = [c \in Conns |-> {}]
    /\ writes = [c \in Conns |-> <<>>]
    /\ removals = [c \in Conns |-> 0]
    /\ sentCount = [c \in Conns |-> 0]
    /\ last = Idle
    /\ mask = PySet_MINSIZE - 1

Init ==
    /\ RelayInit
    /\ fill = 0
    /\ files = {}
    /\ response = NoResponse

\* Connections are numbered in the order their requests arrive.
NextNew(c) == pc[c] = "new" /\ \A d \in Conns : d < c => pc[d] # "new"

\* Lines 10-15: the handshake completes and the connection is registered.
Accept(c) ==
    /\ NextNew(c)
    /\ \E i \in Slots :
          /\ FreeSlot(active_websockets, mask, i)
          /\ LET t == SetAdd(active_websockets, i, c) IN
             IF NeedsResize(fill + 1, mask)
             THEN /\ active_websockets' \in Resized(t, mask, NewSize(Used(t)))
                  /\ fill' = Used(t)
                  /\ mask' = NewSize(Used(t)) - 1
             ELSE /\ active_websockets' = t
                  /\ fill' = fill + 1
                  /\ mask' = mask
    /\ pc' = [pc EXCEPT ![c] = "recv"]
    /\ last' = Idle
    /\ UNCHANGED <<closed, down, inbox, msg, itPos, itUsed, regStart, doneStart,
                   writes, removals, sentCount>>
    /\ UNCHANGED httpVars

\* Faulty variant: the connection is registered before the handshake, and a
\* failing handshake leaves it in the registry.
PrepareFailAfterAdd(c) ==
    /\ NextNew(c)
    /\ \E i \in Slots :
          /\ active_websockets[i] = 0
          /\ active_websockets' = SetAdd(active_websockets, i, c)
    /\ pc' = [pc EXCEPT ![c] = "refused"]
    /\ down' = [down EXCEPT ![c] = TRUE]
    /\ last' = Idle
    /\ UNCHANGED <<closed, inbox, msg, itPos, itUsed, regStart,
                   doneStart, writes, removals, sentCount>>
    /\ UNCHANGED <<tableVars, httpVars>>

\* Line 11: ws.prepare raises; the try block is never entered and the handler
\* ends without having registered the connection.
PrepareFail(c) ==
    /\ NextNew(c)
    /\ pc' = [pc EXCEPT ![c] = "refused"]
    /\ down' = [down EXCEPT ![c] = TRUE]
    /\ last' = Idle
    /\ UNCHANGED <<active_websockets, closed, inbox, msg, itPos, itUsed, regStart,
                   doneStart, writes, removals, sentCount>>
    /\ UNCHANGED <<tableVars, httpVars>>

\* The peer of c can still send: handshake done, connection neither closed nor
\* lost, and no close frame sent yet.
ClientUp(c) ==
    /\ pc[c] \in {"recv", "send"}
    /\ ~closed[c] /\ ~down[c]
    /\ \A j \in 1..Len(inbox[c]) : inbox[c][j].type \notin {"CLOSE", "ERROR"}

\* The peer of c sends a TEXT frame; its payload is its number in c's stream.
ClientSendText(c) ==
    /\ ClientUp(c)
    /\ TotalFrames < MaxFrames
    /\ sentCount' = [sentCount EXCEPT ![c] = @ + 1]
    /\ inbox' = [inbox EXCEPT ![c] = Append(@, [type |-> "TEXT", data |-> sentCount[c] + 1])]
    /\ last' = Idle
    /\ UNCHANGED <<active_websockets, pc, closed, down, msg, itPos, itUsed, regStart,
                   doneStart, writes, removals>>
    /\ UNCHANGED <<tableVars, httpVars>>

\* The peer of c sends a frame that is neither TEXT nor ERROR nor a close.
ClientSendBinary(c) ==
    /\ ClientUp(c)
    /\ TotalFrames < MaxFrames
    /\ sentCount' = [sentCount EXCEPT ![c] = @ + 1]
    /\ inbox' = [inbox EXCEPT ![c] = Append(@, [type |-> "BINARY", data |-> sentCount[c] + 1])]
    /\ last' = Idle
    /\ UNCHANGED <<active_websockets, pc, closed, down, msg, itPos, itUsed, regStart,
                   doneStart, writes, removals>>
    /\ UNCHANGED <<tableVars, httpVars>>

\* The peer of c starts the closing handshake.
ClientClose(c) ==
    /\ ClientUp(c)
    /\ TotalFrames < MaxFrames
    /\ sentCount' = [sentCount EXCEPT ![c] = @ + 1]
    /\ inbox' = [inbox EXCEPT ![c] = Append(@, [type |-> "CLOSE", data |-> sentCount[c] + 1])]
    /\ last' = Idle
    /\ UNCHANGED <<active_websockets, pc, closed, down, msg, itPos, itUsed, regStart,
                   doneStart, writes, removals>>
    /\ UNCHANGED <<tableVars, httpVars>>

\* The transport of c is lost: writes to it raise from now on, and its reader
\* delivers an ERROR message after the frames already queued.
TransportFail(c) ==
    /\ ClientUp(c)
    /\ TotalFrames < MaxFrames
    /\ down' = [down EXCEPT ![c] = TRUE]
    /\ sentCount' = [sentCount EXCEPT ![c] = @ + 1]
    /\ inbox' = [inbox EXCEPT ![c] = Append(@, [type |-> "ERROR", data |-> sentCount[c] + 1])]
    /\ last' = Idle
    /\ UNCHANGED <<active_websockets, pc, closed, msg, itPos, itUsed, regStart,
                   doneStart, writes, removals>>
    /\ UNCHANGED <<tableVars, httpVars>>

\* Faulty variant: the next message is taken while the relay of the current
\* one is suspended in a write.
CanReadWhileSending(c) == pc[c] \in {"recv", "send"} /\ inbox[c] # <<>>

\* Line 19: a handler takes a message only in `async for`, between two relays.
CanRead(c) == pc[c] = "recv" /\ inbox[c] # <<>>
Front(c) == inbox[c][NextIdx(inbox[c])]
Rest(c) == RemoveAt(inbox[c], NextIdx(inbox[c]))

\* Lines 19-24: a TEXT message is read and the relay begins.
ReceiveText(c) ==
    /\ CanRead(c)
    /\ Front(c).type = "TEXT"
    /\ Fanout(c, Front(c), 0, Used(active_websockets), Registered, Done, FALSE, Rest(c))
    /\ UNCHANGED <<closed, sentCount>>
    /\ UNCHANGED <<tableVars, httpVars>>

\* The registry has been changed since the relay of c began.  A connection
\* object is registered once, so a change never undoes an earlier one.
Mutated(c) == Registered # regStart[c]

\* Line 24 resumes, then lines 22-24: the next turn of the for loop.  The set
\* iterator raises RuntimeError when the set's size is not the one it recorded.
SendResume(c) ==
    /\ pc[c] = "send"
    /\ IF Used(active_websockets) # itUsed[c]
       THEN /\ Finally(c, "RuntimeError")
            /\ last' = [Idle EXCEPT !.actor = c, !.data = Payload(msg[c]),
                                    !.relayEnd = TRUE, !.start = regStart[c],
                                    !.gone = doneStart[c], !.mut = Mutated(c),
                                    !.exit = ExitBy(c, "RuntimeError")]
            /\ UNCHANGED writes
       ELSE Fanout(c, msg[c], itPos[c], itUsed[c], regStart[c], doneStart[c],
                   Mutated(c), inbox[c])
    /\ UNCHANGED <<closed, sentCount>>
    /\ UNCHANGED <<tableVars, httpVars>>

\* Lines 19-20, 25: a message of another type is read and ignored.
ReceiveOther(c) ==
    /\ CanRead(c)
    /\ Front(c).type = "BINARY"
    /\ inbox' = [inbox EXCEPT ![c] = Rest(c)]
    /\ last' = Idle
    /\ UNCHANGED <<active_websockets, pc, closed, down, msg, itPos, itUsed, regStart,
                   doneStart, writes, removals, sentCount>>
    /\ UNCHANGED <<tableVars, httpVars>>

\* Line 19: the reader delivers the peer's close frame; receive() closes the
\* connection (ws.closed becomes true) and awaits the end of the closing handshake.
ReceiveClose(c) ==
    /\ CanRead(c)
    /\ Front(c).type = "CLOSE"
    /\ closed' = [closed EXCEPT ![c] = TRUE]
    /\ pc' = [pc EXCEPT ![c] = "closing"]
    /\ inbox' = [inbox EXCEPT ![c] = Rest(c)]
    /\ last' = Idle
    /\ UNCHANGED <<active_websockets, down, msg, itPos, itUsed, regStart, doneStart,
                   writes, removals, sentCount>>
    /\ UNCHANGED <<tableVars, httpVars>>

\* Faulty variant: the ERROR message is read like any other message that is not
\* TEXT, the connection is left open and the loop goes on reading.
ReceiveErrorKeepsReading(c) ==
    /\ CanRead(c)
    /\ Front(c).type = "ERROR"
    /\ inbox' = [inbox EXCEPT ![c] = Rest(c)]
    /\ last' = Idle
    /\ UNCHANGED <<active_websockets, pc, closed, down, msg, itPos, itUsed, regStart,
                   doneStart, writes, removals, sentCount>>
    /\ UNCHANGED <<tableVars, httpVars>>

\* Line 19: the reader raised; receive() closes the connection and awaits the
\* close before it hands the ERROR message to the loop.
ReceiveError(c) ==
    /\ CanRead(c)
    /\ Front(c).type = "ERROR"
    /\ closed' = [closed EXCEPT ![c] = TRUE]
    /\ pc' = [pc EXCEPT ![c] = "closing"]
    /\ msg' = [msg EXCEPT ![c] = Front(c)]
    /\ inbox' = [inbox EXCEPT ![c] = Rest(c)]
    /\ last' = Idle
    /\ UNCHANGED <<active_websockets, down, itPos, itUsed, regStart, doneStart,
                   writes, removals, sentCount>>
    /\ UNCHANGED <<tableVars, httpVars>>

\* Lines 25-33: the close is over.  An ERROR message is printed (line 26) and the
\* next read finds the connection closed; either way the loop ends, the finally
\* block runs and the handler returns.
LoopExit(c) ==
    /\ pc[c] = "closing"
    /\ Finally(c, "return")
    /\ last' = [Idle EXCEPT !.actor = c, !.exit = ExitBy(c, "return")]
    /\ UNCHANGED <<closed, writes, sentCount>>
    /\ UNCHANGED <<tableVars, httpVars>>

Next ==
    \E c \in Conns :
        \/ Accept(c)
        \/ PrepareFail(c)
        \/ ClientSendText(c)
        \/ ClientSendBinary(c)
        \/ ClientClose(c)
        \/ TransportFail(c)
        \/ ReceiveText(c)
        \/ SendResume(c)
        \/ ReceiveOther(c)
        \/ ReceiveClose(c)
        \/ ReceiveError(c)
        \/ LoopExit(c)

Spec == Init /\ [][Next]_vars

\* The event loop resumes every handler whose await has completed: a handler
\* whose connection has been closed does leave its loop.
FairSpec == Spec /\ \A c \in Conns : WF_vars(LoopExit(c))

\* The server after connections have come and gone: each has left a dummy
\* entry in the table of the set and nothing else.
ChurnInit ==
    /\ RelayInit
    /\ fill \in 1..MaxGone
    /\ files = {}
    /\ response = NoResponse

ChurnSpec == ChurnInit /\ [][Next]_vars

TypeOK ==
    /\ active_websockets \in [Slots -> 0..NConns]
    /\ pc \in [Conns -> {"new", "refused", "recv", "send", "closing", "done"}]
    /\ closed \in [Conns -> BOOLEAN]
    /\ down \in [Conns -> BOOLEAN]
    /\ itPos \in [Conns -> 0..TableSize]
    /\ itUsed \in [Conns -> 0..NConns]
    /\ fill \in 0..(NConns + MaxGone)
    /\ mask \in {PySet_MINSIZE - 1, 2 * PySet_MINSIZE - 1, 4 * PySet_MINSIZE - 1}

----------------------------------------------------------------------------
\* The registry operations on their own: the finally block run for any
\* connection of any registry, as often as one likes (an error followed by an
\* explicit close runs it twice for the same connection).

\* Every table that has not grown (its members sit in the lower half of the
\* slots) in which no connection sits in two slots.
Tables ==
    {[j \in Slots |-> IF j < NConns THEN f[j] ELSE 0] :
        f \in {g \in [0..(NConns - 1) -> 0..NConns] :
                  \A i, j \in 0..(NConns - 1) : (i # j /\ g[i] # 0) => g[i] # g[j]}}

CleanupInit ==
    /\ active_websockets \in Tables
    /\ pc = [c \in Conns |-> IF c \in Members(active_websockets) THEN "closing" ELSE "done"]
    /\ closed = [c \in Conns |-> TRUE]
    /\ down = [c \in Conns |-> c \notin Members(active_websockets)]
    /\ inbox = [c \in Conns |-> <<>>]
    /\ msg = [c \in Conns |-> NoMsg]
    /\ itPos = [c \in Conns |-> 0]
    /\ itUsed = [c \in Conns |-> 0]
    /\ regStart = [c \in Conns |-> {}]
    /\ doneStart = [c \in Conns |-> {}]
    /\ writes = [c \in Conns |-> <<>>]
    /\ removals = [c \in Conns |-> 0]
    /\ sentCount = [c \in Conns |-> 0]
    /\ last = Idle
    /\ fill = Used(active_websockets)
    /\ mask = PySet_MINSIZE - 1
    /\ files = {}
    /\ response = NoResponse

\* Lines 28-31 for connection c, whether or not it is still registered.
\* last.gone: the connections whose cleanup had run before this one.
Disconnect(c) ==
    /\ pc[c] \in {"closing", "done"}
    /\ Finally(c, "return")
    /\ last' = [Idle EXCEPT !.actor = c, !.exit = ExitBy(c, "return"), !.gone = Done]
    /\ UNCHANGED <<closed, writes, sentCount>>
    /\ UNCHANGED <<tableVars, httpVars>>

CleanupNext == \E c \in Conns : Disconnect(c)

CleanupSpec == CleanupInit /\ [][CleanupNext]_vars

----------------------------------------------------------------------------
\* The HTTP routes (lines 35-49).  A path is the sequence of its segments:
\* "/dashboard.html" is <<"dashboard.html">> and the prefix "/" is <<>>.  A file
\* is named by its path from the working directory of the server.

\* Line 4: r"../data/dashboard.html", a path relative to the working directory.
EXTERNAL_DASHBOARD_PATH == <<"..", "data", "dashboard.html">>

\* The requests made: their methods and paths.
Methods == {"GET", "HEAD", "POST"}
RequestPaths ==
    {<<"ws">>, <<"dashboard.html">>, <<"index.html">>, <<"assets", "dashboard.html">>}

\* The files that may exist: one under each requested path in the working
\* directory, and the external dashboard.
FileNames == RequestPaths \cup {EXTERNAL_DASHBOARD_PATH}

\* Faulty variant: the static route is registered before the dashboard route.
app_router_static_first ==
    << [kind |-> "plain", path |-> <<"ws">>, methods |-> {"GET", "HEAD"},
        handler |-> "websocket_handler"],
       [kind |-> "static", path |-> <<>>, methods |-> {"GET", "HEAD"},
        handler |-> "static"],
       [kind |-> "plain", path |-> <<"dashboard.html">>, methods |-> {"GET", "HEAD"},
        handler |-> "external_dashboard_handler"] >>

\* Lines 42, 45, 49: the routes in the order of their registration.  add_get
\* registers the handler for GET and, by default, for HEAD; add_static serves
\* GET and HEAD under its prefix.
app_router ==
    << [kind |-> "plain", path |-> <<"ws">>, methods |-> {"GET", "HEAD"},
        handler |-> "websocket_handler"],
       [kind |-> "plain", path |-> <<"dashboard.html">>, methods |-> {"GET", "HEAD"},
        handler |-> "external_dashboard_handler"],
       [kind |-> "static", path |-> <<>>, methods |-> {"GET", "HEAD"},
        handler |-> "static"] >>

IsPrefix(p, q) == Len(p) <= Len(q) /\ SubSeq(q, 1, Len(p)) = p

\* A plain resource matches its own path, a static resource every path under
\* its prefix.
Matches(route, path) ==
    IF route.kind = "plain" THEN path = route.path ELSE IsPrefix(route.path, path)

\* The router tries the resources in the order of their registration, from the
\* k-th on, and takes the first that matches the path and allows the method;
\* 0 when there is none.
RECURSIVE Resolve(_, _, _, _)
Resolve(routes, method, path, k) ==
    IF k > Len(routes) THEN 0
    ELSE IF Matches(routes[k], path) /\ method \in routes[k].methods THEN k
    ELSE Resolve(routes, method, path, k + 1)

\* Lines 35-36: FileResponse of the external path, whatever the request says;
\* 404 when the file does not exist.
external_dashboard_handler(fs) ==
    IF EXTERNAL_DASHBOARD_PATH \in fs
    THEN [handler |-> "external_dashboard_handler", status |-> 200,
          file |-> EXTERNAL_DASHBOARD_PATH]
    ELSE [handler |-> "external_dashboard_handler", status |-> 404, file |-> <<>>]

\* Line 49: the static route serves the file of the working directory that the
\* path names below the prefix; 404 when there is no such file.
StaticHandler(fs, route, path) ==
    LET rel == SubSeq(path, Len(route.path) + 1, Len(path)) IN
    IF rel \in fs
    THEN [handler |-> "static", status |-> 200, file |-> rel]
    ELSE [handler |-> "static", status |-> 404, file |-> <<>>]

\* The answer to a request.  Without a route for the method the router answers
\* itself: 405 when a resource matches the path, 404 otherwise.  A request
\* routed to websocket_handler starts the handshake of line 11 (Accept and
\* PrepareFail above); no file is served.
Answer(routes, fs, method, path) ==
    LET k == Resolve(routes, method, path, 1) IN
    IF k = 0
    THEN [handler |-> "",
          status |-> IF \E j \in 1..Len(routes) : Matches(routes[j], path)
                     THEN 405 ELSE 404,
          file |-> <<>>]
    ELSE IF routes[k].handler = "external_dashboard_handler"
         THEN external_dashboard_handler(fs)
    ELSE IF routes[k].handler = "static"
         THEN StaticHandler(fs, routes[k], path)
    ELSE [handler |-> routes[k].handler, status |-> 101, file |-> <<>>]

RouterInit ==
    /\ RelayInit
    /\ fill = 0
    /\ files \in SUBSET FileNames
    /\ response = NoResponse

\* One HTTP request is routed and answered.
HttpRequest(method, path) ==
    /\ response' = [method |-> method, path |-> path,
                    handler |-> Answer(app_router, files, method, path).handler,
                    status |-> Answer(app_router, files, method, path).status,
                    file |-> Answer(app_router, files, method, path).file]
    /\ UNCHANGED <<files, relayVars>>

RouterNext == \E method \in Methods, path \in RequestPaths : HttpRequest(method, path)

RouterSpec == RouterInit /\ [][RouterNext]_vars

----------------------------------------------------------------------------
\* Properties.

Active == {c \in Conns : pc[c] \in {"recv", "send", "closing"}}

\* c is connected: registered, not closed, transport alive.
Open(c) == c \in Registered /\ ~closed[c] /\ ~down[c]

\* Message d of sender s has been written to r.
Delivered(r, s, d) == \E j \in 1..Len(writes[r]) : writes[r][j] = <<s, d>>

\* How many times message d of sender s has been written to r.
Copies(r, s, d) == Cardinality({j \in 1..Len(writes[r]) : writes[r][j] = <<s, d>>})

\* C1: when the relay of a text message of client i is over, every other
\* client that was registered when it began has received the message.  Stated
\* for the recipients that are still connected when the relay ends, which the
\* claim includes.
C1_AllConnectedReceive ==
    last.relayEnd =>
        \A c \in last.start \ {last.actor} :
            Open(c) => Delivered(c, last.actor, last.data)

\* C2: no send_str call made while relaying connection i's message, and no
\* frame written, targets connection i.
C2_NeverToSender ==
    /\ last.sent => last.to # last.actor
    /\ \A r \in Conns : \A j \in 1..Len(writes[r]) : writes[r][j][1] # r

\* C2 witness: a relay has written a message to a peer.
C2_Witness == last.sent /\ last.ok /\ last.actor \in Registered

\* C3: when the write to recipient B fails during a relay, every other
\* registered open recipient C still gets the message.
C3_FailedWriteDoesNotAbort ==
    (last.sent /\ ~last.ok) =>
        \A c \in last.start \ {last.actor, last.to} :
            Open(c) => Delivered(c, last.actor, last.data)

\* C4: a handler never leaves its loop (and so is never deregistered) because
\* of an error on another connection's transport.
C4_ErrorsAreLocal ==
    (last.exit # "" /\ last.on # 0) => last.on = last.actor

\* C5: a relay during whose suspension the registry was changed is not
\* aborted by the change, and writes exactly once to every connection that
\* stayed registered and open throughout.
C5_MutationSafeIteration ==
    (last.relayEnd /\ last.mut) =>
        /\ last.exit # "RuntimeError"
        /\ \A c \in last.start \ {last.actor} :
              Open(c) => Copies(c, last.actor, last.data) = 1

\* C6: a relay never calls send_str on a connection whose cleanup had run
\* before the relay began; a cleaned-up connection is not in the registry; and
\* the cleanup raises nothing (its transport is lost by then or not).
C6_NoWriteAfterDisconnect ==
    /\ last.sent => last.to \notin last.gone
    /\ \A c \in Conns : pc[c] = "done" => c \notin Registered
    /\ last.exit # "KeyError"

\* C6 witness: a relay that began after a registered connection was cleaned up
\* makes a send_str call.
C6_Witness ==
    /\ last.sent
    /\ \E c \in last.gone : removals[c] = 1 /\ down[c]

\* C7: at every point where all handlers are suspended (every state here), the
\* registry holds exactly the connections registered by a handler that has not
\* ended, each in one slot, and no connection has left it twice.
C7_RegistryIsActiveSet ==
    /\ Registered = Active
    /\ Used(active_websockets) = Cardinality(Active)
    /\ \A c \in Conns : removals[c] = (IF pc[c] = "done" THEN 1 ELSE 0)

\* C7 witness: one connection has come and gone while another is in the
\* middle of a relay and a third is registered.
C7_Witness ==
    \E a, b, c \in Conns :
        pc[a] = "done" /\ pc[b] = "send" /\ pc[c] = "recv"

\* C8: a handler that leaves its read loop, by the peer's close, a transport
\* error or an exception raised while relaying, has removed its connection
\* from the registry when it ends, and removed it once.
C8_RemovedOnEveryExit ==
    /\ last.exit # "" => (last.actor \notin Registered /\ removals[last.actor] = 1)
    /\ \A c \in Conns : pc[c] = "done" => (c \notin Registered /\ removals[c] = 1)

\* C8 witness: a handler has been ended by an exception raised in its relay.
C8_Witness == last.exit \in {"RuntimeError", "ConnectionResetError"}

\* C9: running the cleanup for a connection whose cleanup has already run
\* raises nothing and leaves the registry as it was.
C9_CleanupIdempotent ==
    [][\A c \in Conns :
          (last'.actor = c /\ last'.exit # "" /\ pc[c] = "done") =>
              /\ last'.exit = "return"
              /\ active_websockets' = active_websockets
              /\ removals'[c] = removals[c]]_vars

\* C9 witness: the cleanup has run for a connection that was already cleaned up.
C9_Witness == last.exit = "return" /\ last.actor \in last.gone

\* C10: the messages of one sender written to one recipient appear in the
\* order in which the sender's frames arrived (payloads number the frames).
C10_PerSenderOrder ==
    \A r \in Conns : \A j, k \in 1..Len(writes[r]) :
        (j < k /\ writes[r][j][1] = writes[r][k][1]) => writes[r][j][2] <= writes[r][k][2]

\* C10 witness: two different messages of one sender were written to one recipient.
C10_Witness ==
    \E r \in Conns : \E j, k \in 1..Len(writes[r]) :
        j < k /\ writes[r][j][1] = writes[r][k][1] /\ writes[r][j][2] # writes[r][k][2]

\* C11: a request for /dashboard.html is never answered by the static route and
\* never with the file dashboard.html of the working directory, whatever files
\* exist; a GET or HEAD request for it is answered by external_dashboard_handler,
\* with the external file when that file exists.
C11_DashboardAlias ==
    response.path = <<"dashboard.html">> =>
        /\ response.handler # "static"
        /\ response.file # <<"dashboard.html">>
        /\ response.method \in {"GET", "HEAD"} =>
              /\ response.handler = "external_dashboard_handler"
              /\ response.file =
                    (IF EXTERNAL_DASHBOARD_PATH \in files
                     THEN EXTERNAL_DASHBOARD_PATH ELSE <<>>)

\* C11 witness: /dashboard.html was requested while the working directory holds
\* a file dashboard.html, and the external file was served.
C11_Witness ==
    /\ response.path = <<"dashboard.html">>
    /\ response.method = "GET"
    /\ <<"dashboard.html">> \in files
    /\ response.file = EXTERNAL_DASHBOARD_PATH

\* C12: a relay never calls send_str on a connection whose transport is already
\* closed, be it marked closed (ws.closed) or lost without the mark.
C12_NoWriteToClosedTransport ==
    last.sent => (~closed[last.to] /\ ~down[last.to])

\* The handler of c has been handed the ERROR message (line 25) and has not ended.
ErrorSeen(c) == msg[c].type = "ERROR"

\* C13: the handler that reads an ERROR message leaves its reading state for
\* the closing state; from then on it reads no message and writes to no peer,
\* its only step being the end of its loop with the cleanup; and it does end,
\* with its connection out of the registry.
C13_ErrorEndsConnection ==
    /\ [][\A c \in Conns :
            /\ (CanRead(c) /\ Front(c).type = "ERROR" /\ inbox'[c] # inbox[c]) =>
                   (pc'[c] = "closing" /\ closed'[c] /\ ErrorSeen(c)')
            /\ ErrorSeen(c) =>
                   /\ pc[c] = "closing"
                   /\ inbox'[c] = inbox[c]
                   /\ last'.actor = c => (~last'.sent /\ last'.exit = "return")
                   /\ pc'[c] # pc[c] => (pc'[c] = "done" /\ c \notin Registered')]_vars
    /\ \A c \in Conns : ErrorSeen(c) ~> (pc[c] = "done" /\ c \notin Registered)

\* C13 witness: a handler has been handed an ERROR message while a peer of its
\* connection is in the middle of a relay.
C13_Witness ==
    \E c, d \in Conns : ErrorSeen(c) /\ c \in Registered /\ pc[d] = "send"

\* C14: every frame written to a connection r is written by the handler of
\* another connection s and carries the payload of the TEXT message that handler
\* is relaying, which is the message it read from the frames of its own peer;
\* a step that reads a message of another type writes nothing.
C14_VerbatimRelay ==
    [][/\ \A r \in Conns :
             writes'[r] # writes[r] =>
                 /\ Len(writes'[r]) = Len(writes[r]) + 1
                 /\ SubSeq(writes'[r], 1, Len(writes[r])) = writes[r]
                 /\ LET s == writes'[r][Len(writes'[r])][1]
                        d == writes'[r][Len(writes'[r])][2]
                    IN /\ s # r
                       /\ \/ CanRead(s) /\ Front(s).type = "TEXT" /\ Front(s).data = d
                          \/ pc[s] = "send" /\ msg[s].type = "TEXT" /\ msg[s].data = d
       /\ \A c \in Conns :
             /\ (pc[c] = "recv" /\ pc'[c] = "send") => (CanRead(c) /\ msg'[c] = Front(c))
             /\ (pc[c] = "send" /\ pc'[c] = "send") => msg'[c] = msg[c]
             /\ (CanRead(c) /\ Front(c).type # "TEXT" /\ inbox'[c] # inbox[c]) =>
                    writes' = writes]_vars

\* C14 witness: the second frame of a connection has been written to a peer and
\* its first frame, which was not TEXT or found no recipient, to none.
C14_Witness ==
    /\ last.sent /\ last.ok /\ last.data = 2
    /\ \A r \in Conns : ~Delivered(r, last.actor, 1)

\* C15: while the handler of c is suspended in a write of its relay, it takes
\* no message from its connection and goes on relaying the same message; and
\* at every write of a message of c, no later message of c has been written to
\* any connection (payloads number the frames of c).
C15_NoPipelining ==
    [][/\ \A c \in Conns :
             (pc[c] = "send" /\ pc'[c] # "done") =>
                 /\ Len(inbox'[c]) >= Len(inbox[c])
                 /\ SubSeq(inbox'[c], 1, Len(inbox[c])) = inbox[c]
                 /\ pc'[c] = "send" => msg'[c] = msg[c]
       /\ (last'.sent /\ last'.ok) =>
             \A r \in Conns : \A j \in 1..Len(writes'[r]) :
                 writes'[r][j][1] = last'.actor => writes'[r][j][2] <= last'.data]_vars

\* C15 witness: a message of one sender was written to two recipients and its
\* next message to one of them.
C15_Witness ==
    \E s, r1, r2 \in Conns :
        /\ r1 # r2
        /\ Delivered(r1, s, 1) /\ Delivered(r2, s, 1) /\ Delivered(r1, s, 2)

\* C16: the step in which the relay of a handler raises (send_str fails, or the
\* set iterator finds the registry changed in size) takes the handler's own
\* connection, registered until then, out of the registry, and nothing else,
\* before the handler ends.
C16_RemovedWhenRelayRaises ==
    [][last'.exit \in {"RuntimeError", "ConnectionResetError"} =>
          /\ pc[last'.actor] \in {"recv", "send"}
          /\ last'.actor \in Registered
          /\ Registered' = Registered \ {last'.actor}
          /\ removals'[last'.actor] = removals[last'.actor] + 1
          /\ pc'[last'.actor] = "done"]_vars

\* C16 witness: a relay has been ended by the registry's change of size after
\* another handler had been ended by an exception too (it is gone without its
\* connection having been closed).
C16_Witness ==
    /\ last.exit = "RuntimeError"
    /\ \E a \in Conns : a # last.actor /\ pc[a] = "done" /\ ~closed[a]

\* C17: a connection whose handshake has not completed or has failed is not in
\* the registry, has been written nothing and is not the target of a send_str
\* call; a connection enters the registry in the step that completes its
\* handshake and in no other.
C17_RegisteredAfterHandshake ==
    [][/\ \A c \in Conns :
             /\ pc'[c] \in {"new", "refused"} =>
                    (c \notin Registered' /\ writes'[c] = <<>>)
             /\ (c \notin Registered /\ c \in Registered') =>
                    (pc[c] = "new" /\ pc'[c] = "recv")
       /\ last'.sent => pc[last'.to] \notin {"new", "refused"}]_vars

\* C17 witness: a relay writes to a peer after the handshake of some connection
\* has failed.
C17_Witness ==
    /\ last.sent /\ last.ok
    /\ \E c \in Conns : pc[c] = "refused"

\* C18: a step of a relay that does not end its handler, and every step that
\* writes to a connection, leaves the registry as it was; the registry changes
\* only by the registration of a connection whose handshake completes (line 14)
\* and by the cleanup of the handler that ends (line 30), which removes that
\* handler's connection and no other.
C18_RelayKeepsRegistry ==
    [][/\ (last'.actor # 0 /\ last'.exit = "") => active_websockets' = active_websockets
       /\ (\E r \in Conns : writes'[r] # writes[r]) => active_websockets' = active_websockets
       /\ active_websockets' # active_websockets =>
             \/ \E c \in Conns \ Registered :
                   /\ pc[c] = "new" /\ pc'[c] = "recv"
                   /\ Registered' = Registered \cup {c}
             \/ /\ last'.exit # ""
                /\ pc'[last'.actor] = "done"
                /\ Registered' = Registered \ {last'.actor}]_vars

\* C18 witness: a relay has written to a peer while a closed connection, whose
\* cleanup has not run yet, is in the registry.
C18_Witness ==
    /\ last.sent /\ last.ok
    /\ \E c \in Registered : closed[c]

\* C19: no message of a sender is written to a recipient more than once.
C19_AtMostOnce ==
    \A r, s \in Conns : \A d \in 1..MaxFrames : Copies(r, s, d) <= 1
====
